---- MODULE Spec2Model ----
(***************************************************************************)
(* Model of the reference-based JSON decoder of src/src/main.rs:           *)
(* JSONDecoder::new (table load, extra "patch" lines, root decode), the    *)
(* recursive decode_fragment / decode_array / decode_object as an explicit *)
(* call stack, decode_index, and main's output step.                       *)
(*                                                                         *)
(* Conventions.  Table indices are 0-based as in the source; a TLA+        *)
(* sequence is 1-based, so chunk k of the table is encoded_list[k + 1].    *)
(* Strings are sequences of characters (one-character TLA+ strings), so    *)
(* that the two regular expressions and parse::<i64> are computed on the   *)
(* characters.  i64 is modelled with W bits instead of 64.                 *)
(***************************************************************************)
EXTENDS Integers, Sequences, FiniteSets, TLC

\* ------------------------------------------------------------------ bounds
\* Width of the modelled i64 (the source's is 64).
W == 7
\* Longest first-line table drawn as input.
MaxLen == 2
\* Most extra (non-blank) lines of an input.
MaxLines == 2
\* Most elements of an array chunk drawn as input.
MaxArr == 2
\* Most key/value pairs of an object chunk drawn as input.
MaxPairs == 2

I64_MIN == -(2 ^ (W - 1))
I64_MAX == (2 ^ (W - 1)) - 1

\* ------------------------------------------------------- serde_json::Value
Null == [t |-> "null", v |-> 0]
Bool(b) == [t |-> "bool", v |-> b]
\* A Number for which Number::as_i64 is Some(n).
Num(n) == [t |-> "num", v |-> n]
\* A Number for which Number::as_i64 is None (a float, or a u64 above i64::MAX).
Float == [t |-> "float", v |-> 0]
Str(s) == [t |-> "str", v |-> s]
Arr(s) == [t |-> "arr", v |-> s]
\* An object: a function from its keys (character sequences) to values.
Obj(f) == [t |-> "obj", v |-> f]

\* Option<i64>
None == [some |-> FALSE, i |-> 0]
Some(i) == [some |-> TRUE, i |-> i]

\* Value::as_i64: Some for an i64 number, None for anything else.
as_i64(val) == IF val.t = "num" THEN Some(val.v) ELSE None

\* --------------------------------------------------------------- characters
AsciiDigits == {"0", "1", "2", "3", "4", "5", "6", "7", "8", "9"}
\* "U+0663" stands for one non-ASCII decimal digit (ARABIC-INDIC DIGIT THREE):
\* the regex crate's \d is Unicode-aware and matches it, parse::<i64> rejects it.
UnicodeDigits == AsciiDigits \cup {"U+0663"}
DigitVal == ("0" :> 0) @@ ("1" :> 1) @@ ("2" :> 2) @@ ("3" :> 3) @@ ("4" :> 4) @@
            ("5" :> 5) @@ ("6" :> 6) @@ ("7" :> 7) @@ ("8" :> 8) @@ ("9" :> 9)

\* Byte order of the characters the inputs use (String's Ord, the order of
\* serde_json's BTreeMap-backed Map).
CharRank == ("-" :> 45) @@ ("0" :> 48) @@ ("1" :> 49) @@ ("2" :> 50) @@ ("3" :> 51) @@
            ("4" :> 52) @@ ("5" :> 53) @@ ("6" :> 54) @@ ("7" :> 55) @@ ("8" :> 56) @@
            ("9" :> 57) @@ ("P" :> 80) @@ ("_" :> 95) @@ ("a" :> 97) @@ ("e" :> 101) @@
            ("k" :> 107) @@ ("m" :> 109) @@ ("n" :> 110) @@ ("x" :> 120) @@ ("y" :> 121) @@
            ("U+0663" :> 217)

RECURSIVE StrLess(_, _)
StrLess(a, b) ==
    IF b = <<>> THEN FALSE
    ELSE IF a = <<>> THEN TRUE
    ELSE IF CharRank[Head(a)] # CharRank[Head(b)] THEN CharRank[Head(a)] < CharRank[Head(b)]
    ELSE StrLess(Tail(a), Tail(b))

\* The keys of a Map in iteration order.
RECURSIVE SortedKeys(_)
SortedKeys(ks) ==
    IF ks = {} THEN <<>>
    ELSE LET m == CHOOSE k \in ks : \A o \in ks \ {k} : StrLess(k, o)
         IN <<m>> \o SortedKeys(ks \ {m})

\* ---------------------------------------------------- regexes and parse::<i64>
\* Captures with the character class dropped: ^<prefix>(.+)$
CapturesAnything(prefix, s) ==
    IF Len(s) >= 2 /\ s[1] = prefix
    THEN [m |-> TRUE, digits |-> SubSeq(s, 2, Len(s))]
    ELSE [m |-> FALSE, digits |-> <<>>]

\* Regex ^<prefix>(\d+)$ .captures(s).get(1): Some(the digits) or None.
\* The result is [m |-> matched, digits |-> capture group 1].
Captures(prefix, s) ==
    IF /\ Len(s) >= 2
       /\ s[1] = prefix
       /\ \A k \in 2..Len(s) : s[k] \in UnicodeDigits
    THEN [m |-> TRUE, digits |-> SubSeq(s, 2, Len(s))]
    ELSE [m |-> FALSE, digits |-> <<>>]

\* str::parse::<i64>().ok() on a string the regex matched (no sign, one or
\* more digits): None on a non-ASCII digit or when the value exceeds i64::MAX.
RECURSIVE ParseFrom(_, _)
ParseFrom(acc, ds) ==
    IF ds = <<>> THEN Some(acc)
    ELSE IF Head(ds) \notin AsciiDigits THEN None
    ELSE LET n == acc * 10 + DigitVal[Head(ds)]
         IN IF n > I64_MAX THEN None ELSE ParseFrom(n, Tail(ds))

ParseI64(ds) == ParseFrom(0, ds)

\* ---------------------------------------------------------------- decode_index
\* Result<usize>: st is "ok" (r the index), "err" (e the message) or "panic".
Ok(r) == [st |-> "ok", r |-> r, e |-> ""]
Err(e) == [st |-> "err", r |-> 0, e |-> e]
Panic(e) == [st |-> "panic", r |-> 0, e |-> e]

\* i64::abs, then `as usize`.  abs(i64::MIN) overflows: a build with overflow
\* checks panics, a build without them wraps to i64::MIN, which `as usize`
\* turns into 2^(W-1).  The result is the set of outcomes the builds produce.
AbsAsUsize(i) ==
    IF i = I64_MIN
    THEN {Panic("attempt to negate with overflow"), Ok(2 ^ (W - 1))}
    ELSE {Ok(-i)}

\* decode_index with an index past the end wrapped around, not refused.
DecodeIndexWrapped(index, len) ==
    IF ~index.some THEN {Err("Invalid number format")}
    ELSE IF len = 0 THEN {Err("Index out of bounds")}
    ELSE {Ok(index.i % len)}

\* decode_index(index) on a table of length len: the set of possible outcomes.
DecodeIndex(index, len) ==
    IF ~index.some THEN {Err("Invalid number format")}
    ELSE IF index.i >= 0
    THEN {IF index.i < len THEN Ok(index.i) ELSE Err("Index out of bounds")}
    ELSE {IF u.st # "ok" THEN u
          ELSE IF u.r <= len THEN Ok(len - u.r) ELSE Err("Index out of bounds")
          : u \in AbsAsUsize(index.i)}

\* ------------------------------------------------------------------ state
VARIABLES
    pc,            \* where main / JSONDecoder::new stands
    line,          \* the line buffer: the line read last
    input,         \* the reader: how many non-blank lines it still holds
    encoded_list,  \* JSONDecoder.encoded_list, the chunk table
    decoded_data,  \* JSONDecoder.decoded_data
    stack,         \* the decode_array / decode_object activations, outermost first
    err,           \* the message of the error or panic that ended the run
    output,        \* the output sink: "none", "created", "partial" or "written"
    reads,         \* the table reads encoded_list[idx] of the last step, with the length then
    calls,         \* the decode_index calls of the last step
    patched        \* placeholder index -> the `len` written by the last patch naming it

vars == <<pc, line, input, encoded_list, decoded_data, stack, err, output, reads, calls, patched>>

\* The activations the model follows before it reports the stack exhausted.
\* A decode that terminates enters a chunk at most once at a time, and the
\* chunks drawn as input nest one array or object at most.
StackLimit(list) == Len(list) + 2

\* ------------------------------------------------------------------ lines
NoLine == [kind |-> "none", colon |-> FALSE, label |-> <<>>, json |-> FALSE, v |-> <<>>]
\* The first line: json says whether it parses as a JSON array, v is the array.
FirstLine(json, v) == [kind |-> "first", colon |-> FALSE, label |-> <<>>, json |-> json, v |-> v]
\* A line whose trim() is empty; read_line at end of input leaves the buffer empty.
BlankLine == [kind |-> "blank", colon |-> FALSE, label |-> <<>>, json |-> FALSE, v |-> <<>>]
\* Any other line: colon says whether it holds a ':', label is the trimmed
\* text before the first ':', json/v the parse of the text after it.
TextLine(colon, label, json, v) ==
    [kind |-> "text", colon |-> colon, label |-> label, json |-> json, v |-> v]

\* One decode_index call, as logged in `calls`.
Call(index, len, out) == [index |-> index, len |-> len, out |-> out]
\* One table read encoded_list[idx], as logged in `reads`.
Read(idx, len) == [idx |-> idx, len |-> len]

\* ------------------------------------------------------- new: one extra line
\* The decode_index argument built from a label by p_index_re and parse.
LabelIndex(label) == ParseI64(Captures("P", label).digits)

\* SetPlaceholder with the length taken after the append of one chunk.
SetPlaceholderLate(arr, len) == [arr EXCEPT ![2] = Num(len + 1)]

\* arr[1] = Value::Number(Number::from(len as u64))
SetPlaceholder(arr, len) == [arr EXCEPT ![2] = Num(len)]

\* encoded_list.append(&mut encoded_extra)
Extend(list, extra) == list \o extra

\* The body of the `loop` for a non-blank line ln on table list: the set of
\* outcomes [st, list, e, reads, calls, target].  st is "ok" (the loop goes
\* on with table list), "err" or "panic" (new returns; list is the table as it
\* was left).  target is the resolved placeholder index, -1 when none was.
PatchLine(list, ln) ==
    LET len == Len(list)
        out(st, l, e, rd, cl, tg) ==
            [st |-> st, list |-> l, e |-> e, reads |-> rd, calls |-> cl, target |-> tg]
    IN
    IF ~ln.colon THEN {out("err", list, "Invalid extra line format", <<>>, <<>>, -1)}
    ELSE IF ~Captures("P", ln.label).m
    THEN {out("err", list, "Invalid P-index format", <<>>, <<>>, -1)}
    ELSE
      { LET cl == <<Call(LabelIndex(ln.label), len, d)>> IN
        IF d.st # "ok" THEN out(d.st, list, d.e, <<>>, cl, -1)
        ELSE
          LET rd == <<Read(d.r, len)>>
              value == list[d.r + 1]
          IN
          IF value.t # "arr" THEN out("err", list, "Invalid array format", rd, cl, -1)
          ELSE IF Len(value.v) # 2 THEN out("err", list, "Array length is not 2", rd, cl, -1)
          ELSE
            LET set == [list EXCEPT ![d.r + 1] = Arr(SetPlaceholder(value.v, len))] IN
            IF ~ln.json THEN out("err", set, "Invalid JSON array", rd, cl, d.r)
            ELSE out("ok", Extend(set, ln.v), "", rd, cl, d.r)
        : d \in DecodeIndex(LabelIndex(ln.label), len) }

\* --------------------------------------------------------- the decode stack
\* An activation of decode_array (kind "arr") or decode_object (kind "obj"):
\*   src    the array (a sequence) or the object (a function) being decoded
\*   keys   the keys of an object in the order `for (key, value) in obj` takes them
\*   i      the position of the loop: the next element / the next key, from 1
\*   res    `result` so far
\*   wait   what the activation does with the value its pending call returns:
\*          "push" (result.push), "ret" (return it), "ins" (result.insert)
\*   key    obj_key of the pending insert
\*   chunk  the table index this activation decodes, -1 for a nested fragment
Frame(kind, src, chunk) ==
    [kind |-> kind, src |-> src, keys |-> IF kind = "obj" THEN SortedKeys(DOMAIN src) ELSE <<>>,
     i |-> 1, res |-> <<>>, wait |-> "none", key |-> <<>>, chunk |-> chunk]

\* Push at the wrong end.
PushFront(res, v) == <<v>> \o res

\* Vec::push
Push(res, v) == Append(res, v)

\* Map::insert
Insert(f, k, v) == [x \in (DOMAIN f) \cup {k} |-> IF x = k THEN v ELSE f[x]]

\* The state of the decode after a step: pc is "decode" (still running),
\* "decoded" (the root call returned data), "failed", "panicked" or "overflow".
Running(st) == [pc |-> "decode", stack |-> st, data |-> Null, e |-> ""]
Finished(v) == [pc |-> "decoded", stack |-> <<>>, data |-> v, e |-> ""]
Failed(e) == [pc |-> "failed", stack |-> <<>>, data |-> Null, e |-> e]
Panicked(e) == [pc |-> "panicked", stack |-> <<>>, data |-> Null, e |-> e]
Overflow(st) == [pc |-> "overflow", stack |-> st, data |-> Null, e |-> "stack overflow"]

\* A call returns v to the activations st: the innermost one pushes, inserts
\* or itself returns v.
RECURSIVE Return(_, _)
Return(st, v) ==
    IF st = <<>> THEN Finished(v)
    ELSE LET top == st[Len(st)]
             rest == SubSeq(st, 1, Len(st) - 1)
         IN CASE top.wait = "ret" -> Return(rest, v)
              [] top.wait = "push" ->
                   Running(Append(rest, [top EXCEPT !.res = Push(@, v), !.i = @ + 1,
                                                    !.wait = "none"]))
              [] OTHER ->
                   Running(Append(rest, [top EXCEPT !.res = Insert(@, top.key, v), !.i = @ + 1,
                                                    !.wait = "none", !.key = <<>>]))

\* decode_fragment(fragment) called from the activations st: an array or an
\* object opens an activation, anything else is cloned and returned.
DecodeFragment(st, fragment, chunk, limit) ==
    IF fragment.t \in {"arr", "obj"}
    THEN IF Len(st) >= limit THEN Overflow(st)
         ELSE Running(Append(st, Frame(fragment.t, fragment.v, chunk)))
    ELSE Return(st, fragment)

\* The innermost activation marked as waiting for a call.
Waiting(st, wait, key) ==
    [st EXCEPT ![Len(st)] = [@ EXCEPT !.wait = wait, !.key = key]]

\* What one step leaves: the decode state and the step's logs.
Step(next, rd, cl) == [next |-> next, reads |-> rd, calls |-> cl]

\* Which arm of decode_array's match an element takes.
IsPushMarker(arr, k) == arr[k].t = "str" /\ arr[k].v = <<"P">>

\* One iteration of decode_array's loop in the innermost activation, or its
\* final Ok(Value::Array(result)): the set of possible outcomes.
ArrayStep(st, list) ==
    LET top == st[Len(st)]
        arr == top.src
        len == Len(list)
    IN
    IF top.i > Len(arr)
    THEN {Step(Return(SubSeq(st, 1, Len(st) - 1), Arr(top.res)), <<>>, <<>>)}
    ELSE
      LET item == arr[top.i] IN
      IF item.t \in {"num", "float"}
      THEN { IF d.st = "err" THEN Step(Failed(d.e), <<>>, <<Call(as_i64(item), len, d)>>)
             ELSE IF d.st = "panic"
             THEN Step(Panicked(d.e), <<>>, <<Call(as_i64(item), len, d)>>)
             ELSE Step(DecodeFragment(Waiting(st, "push", <<>>), list[d.r + 1], d.r, StackLimit(list)),
                       <<Read(d.r, len)>>, <<Call(as_i64(item), len, d)>>)
             : d \in DecodeIndex(as_i64(item), len) }
      ELSE IF IsPushMarker(arr, top.i)
      THEN IF Len(arr) < 2
           THEN {Step(Failed("Missing index in array"), <<>>, <<>>)}
           ELSE { IF d.st = "err" THEN Step(Failed(d.e), <<>>, <<Call(as_i64(arr[2]), len, d)>>)
                  ELSE IF d.st = "panic"
                  THEN Step(Panicked(d.e), <<>>, <<Call(as_i64(arr[2]), len, d)>>)
                  ELSE Step(DecodeFragment(Waiting(st, "ret", <<>>), list[d.r + 1], d.r, StackLimit(list)),
                            <<Read(d.r, len)>>, <<Call(as_i64(arr[2]), len, d)>>)
                  : d \in DecodeIndex(as_i64(arr[2]), len) }
      ELSE {Step(DecodeFragment(Waiting(st, "push", <<>>), item, -1, StackLimit(list)), <<>>, <<>>)}

\* KeyIndex with capture group 0, the whole match, in place of group 1.
KeyIndexWholeMatch(key) == ParseI64(key)

\* The decode_index argument built from an object key by key_index_re and parse.
KeyIndex(key) == ParseI64(Captures("_", key).digits)

\* One iteration of decode_object's loop in the innermost activation, or its
\* final Ok(Value::Object(result)): the set of possible outcomes.
ObjectStep(st, list) ==
    LET top == st[Len(st)]
        obj == top.src
        keys == top.keys
        len == Len(list)
    IN
    IF top.i > Len(keys)
    THEN {Step(Return(SubSeq(st, 1, Len(st) - 1), Obj(top.res)), <<>>, <<>>)}
    ELSE
      LET key == keys[top.i]
          value == obj[key]
      IN
      IF ~Captures("_", key).m THEN {Step(Failed("Invalid K-index format"), <<>>, <<>>)}
      ELSE
        { LET c1 == Call(KeyIndex(key), len, d1)
              c2 == Call(as_i64(value), len, d2)
              r1 == Read(d1.r, len)
          IN
          IF d1.st = "err" THEN Step(Failed(d1.e), <<>>, <<c1>>)
          ELSE IF d1.st = "panic" THEN Step(Panicked(d1.e), <<>>, <<c1>>)
          ELSE IF list[d1.r + 1].t # "str"
          THEN Step(Failed("Invalid string format"), <<r1>>, <<c1>>)
          ELSE IF d2.st = "err" THEN Step(Failed(d2.e), <<r1>>, <<c1, c2>>)
          ELSE IF d2.st = "panic" THEN Step(Panicked(d2.e), <<r1>>, <<c1, c2>>)
          ELSE Step(DecodeFragment(Waiting(st, "ins", list[d1.r + 1].v),
                                   list[d2.r + 1], d2.r, StackLimit(list)),
                    <<r1, Read(d2.r, len)>>, <<c1, c2>>)
          : d1 \in DecodeIndex(KeyIndex(key), len), d2 \in DecodeIndex(as_i64(value), len) }

\* ------------------------------------------------------------------ inputs
SeqsUpTo(S, n) == UNION {[1..k -> S] : k \in 0..n}

RefNums == {Num(-2), Num(-1), Num(0), Num(1), Num(I64_MIN)}
NestedElems == {Arr(<<Str(<<"x">>)>>), Arr(<<Num(1)>>), Obj(<<"_", "1">> :> Num(1))}
Elems == RefNums \cup {Float, Str(<<"P">>), Str(<<"x">>)} \cup NestedElems
Arrays == {Arr(s) : s \in SeqsUpTo(Elems, MaxArr)}

Keys == {<<"_", "0">>, <<"_", "1">>, <<"_", "0", "1">>, <<"a">>, <<"_", "9", "9", "9">>,
         <<"_", "U+0663">>}
PairValues == {Num(1), Num(-1), Str(<<"x">>)}
Objects == {Obj(f) : f \in UNION {[K -> PairValues] :
                                    K \in {Q \in SUBSET Keys : Cardinality(Q) <= MaxPairs}}}

\* Chunk 0 of a first line, and the chunks after it.
Roots == Arrays \cup Objects \cup {Str(<<"x">>), Null}
Others == {Str(<<"x">>), Num(0), Arr(<<Num(0)>>), Arr(<<Str(<<"P">>), Num(1)>>),
           Arr(<<Str(<<"x">>)>>)}

\* The tables of the specification's worked examples.
ExampleTables ==
    { <<Obj(<<"_", "1">> :> Num(2)), Str(<<"x">>), Num(5)>>,
      <<Obj(<<"_", "2">> :> Num(3)), Null, Str(<<"n", "a", "m", "e">>),
        Str(<<"A", "l", "i", "c", "e">>)>>,
      <<Arr(<<Str(<<"x">>), Num(1), Str(<<"P">>)>>), Str(<<"y">>)>> }

\* Tables whose chunk 0 is an object whose value names an array chunk, an
\* object chunk, chunk 0 itself, and no chunk at all.
ObjectTables ==
    { <<Obj(<<"_", "1">> :> Num(2)), Str(<<"x">>), Arr(<<Str(<<"y">>), Num(1)>>)>>,
      <<Obj(<<"_", "1">> :> Num(2)), Str(<<"x">>), Obj(<<"_", "1">> :> Num(-2))>>,
      <<Obj(<<"_", "1">> :> Num(0)), Str(<<"x">>)>>,
      <<Obj(<<"_", "1">> :> Num(I64_MIN)), Str(<<"x">>)>> }

Tables ==
    {<<>>} \cup ExampleTables \cup ObjectTables
    \cup {<<r>> \o o : r \in Roots, o \in SeqsUpTo(Others, MaxLen - 1)}

\* The tables of the inputs that go on with extra lines.
PatchChunks == {Arr(<<Str(<<"P">>), Num(1)>>), Arr(<<Num(-1), Num(1)>>), Arr(<<Num(-1)>>), Num(0)}
PatchTables == SeqsUpTo(PatchChunks, MaxLen)

Labels == {<<"P", "0">>, <<"P", "1">>, <<"P", "2">>, <<"P", "-", "1">>, <<"P", "9", "9", "9">>,
           <<"P", "U+0663">>, <<"x">>}
Payloads == {<<>>, <<Num(42)>>, <<Num(42), Arr(<<Str(<<"P">>), Num(0)>>)>>}
ExtraLines ==
    {TextLine(FALSE, <<>>, FALSE, <<>>)}
    \cup {TextLine(TRUE, l, FALSE, <<>>) : l \in Labels}
    \cup {TextLine(TRUE, l, TRUE, v) : l \in Labels, v \in Payloads}

\* An input: its first line and the number of non-blank lines after it.
Inputs ==
    {[first |-> FirstLine(FALSE, <<>>), lines |-> 0]}
    \cup {[first |-> FirstLine(TRUE, t), lines |-> 0] : t \in Tables}
    \cup {[first |-> FirstLine(TRUE, t), lines |-> n] : t \in PatchTables, n \in 0..MaxLines}

\* ------------------------------------------------------------------ actions
Init ==
    /\ pc = "main"
    /\ line = NoLine
    /\ input = 0
    /\ encoded_list = <<>>
    /\ decoded_data = Null
    /\ stack = <<>>
    /\ err = ""
    /\ output = "none"
    /\ reads = <<>>
    /\ calls = <<>>
    /\ patched = <<>>

\* A run that ended in an error return or a panic: the decoder is dropped.
Abort(to, e) ==
    /\ pc' = to
    /\ err' = e
    /\ encoded_list' = <<>>
    /\ decoded_data' = Null
    /\ stack' = <<>>
    /\ patched' = <<>>

\* main: the input is opened (File::open of a given path may fail).
OpenInput ==
    /\ pc = "main"
    /\ \E ok \in BOOLEAN :
         IF ok
         THEN /\ pc' = "new"
              /\ UNCHANGED <<err, encoded_list, decoded_data, stack, patched>>
         ELSE Abort("failed", "Failed to open input file")
    /\ UNCHANGED <<line, input, output, reads, calls>>

\* new: the first line is read and parsed into the table.
LoadTable ==
    /\ pc = "new"
    /\ \E in \in Inputs \cup {[first |-> NoLine, lines |-> 0]} :
         /\ line' = in.first
         /\ input' = in.lines
         /\ IF in.first.kind = "none"
            THEN Abort("failed", "Failed to read the first line")
            ELSE IF in.first.json
            THEN /\ pc' = "extra"
                 /\ encoded_list' = in.first.v
                 /\ UNCHANGED <<err, decoded_data, stack, patched>>
            ELSE Abort("failed", "Invalid JSON array")
    /\ UNCHANGED <<output, reads, calls>>

\* new: one turn of the loop over the extra lines.  The reader yields its next
\* non-blank line, or a blank line or nothing once it holds no more, or fails.
ExtraLine ==
    /\ pc = "extra"
    /\ \E ln \in IF input = 0 THEN {BlankLine} ELSE ExtraLines \cup {NoLine} :
         /\ line' = ln
         /\ IF ln.kind = "none"
            THEN /\ Abort("failed", "Failed to read the extra line")
                 /\ UNCHANGED <<input, reads, calls>>
            ELSE IF ln.kind = "blank"
            THEN /\ pc' = "root"
                 /\ reads' = <<>>
                 /\ calls' = <<>>
                 /\ UNCHANGED <<input, err, encoded_list, decoded_data, stack, patched>>
            ELSE /\ input' = input - 1
                 /\ \E o \in PatchLine(encoded_list, ln) :
                      /\ reads' = o.reads
                      /\ calls' = o.calls
                      /\ IF o.st = "ok"
                         THEN /\ pc' = "extra"
                              /\ encoded_list' = o.list
                              /\ patched' = (o.target :> Len(encoded_list)) @@ patched
                              /\ UNCHANGED <<err, decoded_data, stack>>
                         ELSE Abort(IF o.st = "panic" THEN "panicked" ELSE "failed", o.e)
    /\ UNCHANGED output

\* The rest of a step of the decode: the variables take what the step left.
Take(o) ==
    /\ reads' = o.reads
    /\ calls' = o.calls
    /\ IF o.next.pc \in {"decode", "decoded"}
       THEN /\ pc' = o.next.pc
            /\ stack' = o.next.stack
            /\ decoded_data' = o.next.data
            /\ UNCHANGED <<err, encoded_list, patched>>
       ELSE Abort(o.next.pc, o.next.e)

\* The call decode_fragment(&encoded_list[0]) on a table with a chunk 0: the
\* read of chunk 0 and what the call leaves.
RootStep(list) ==
    {Step(DecodeFragment(<<>>, list[1], 0, StackLimit(list)), <<Read(0, Len(list))>>, <<>>)}

\* DecodeRoot not waiting for the loop over the extra lines to end.
DecodeRootEarly ==
    /\ pc \in {"extra", "root"}
    /\ Len(encoded_list) > 0
    /\ \E o \in RootStep(encoded_list) : Take(o)
    /\ UNCHANGED <<line, input, output>>

\* new: decoder.decode_fragment(&decoder.encoded_list[0]).
DecodeRoot ==
    /\ pc = "root"
    /\ IF Len(encoded_list) = 0
       THEN /\ Abort("panicked", "index out of bounds: the len is 0 but the index is 0")
            /\ reads' = <<Read(0, 0)>>
            /\ calls' = <<>>
       ELSE \E o \in RootStep(encoded_list) : Take(o)
    /\ UNCHANGED <<line, input, output>>

\* decode_array: one turn of its loop, or its return.
DecodeArray ==
    /\ pc = "decode"
    /\ stack[Len(stack)].kind = "arr"
    /\ \E o \in ArrayStep(stack, encoded_list) : Take(o)
    /\ UNCHANGED <<line, input, output>>

\* decode_object: one turn of its loop, or its return.
DecodeObject ==
    /\ pc = "decode"
    /\ stack[Len(stack)].kind = "obj"
    /\ \E o \in ObjectStep(stack, encoded_list) : Take(o)
    /\ UNCHANGED <<line, input, output>>

\* CreateOutput moved ahead of the decoder's construction.
CreateOutputFirst ==
    /\ pc = "new"
    /\ output = "none"
    /\ output' = "created"
    /\ UNCHANGED <<pc, err, line, input, encoded_list, decoded_data, stack, reads, calls, patched>>

\* main: the output sink is opened (File::create may fail; stdout is there).
CreateOutput ==
    /\ pc = "decoded"
    /\ \E ok \in BOOLEAN :
         IF ok
         THEN /\ pc' = "serialize"
              /\ output' = "created"
              /\ UNCHANGED err
         ELSE /\ pc' = "failed"
              /\ err' = "Failed to create output file"
              /\ UNCHANGED output
    /\ UNCHANGED <<line, input, encoded_list, decoded_data, stack, reads, calls, patched>>

\* main: decoded_data is serialized into the sink (a write may fail midway).
WriteOutput ==
    /\ pc = "serialize"
    /\ \E ok \in BOOLEAN :
         IF ok
         THEN /\ pc' = "done"
              /\ output' = "written"
              /\ UNCHANGED err
         ELSE /\ pc' = "failed"
              /\ err' = "Failed to write JSON data"
              /\ output' \in {"created", "partial"}
    /\ UNCHANGED <<line, input, encoded_list, decoded_data, stack, reads, calls, patched>>

Next ==
    \/ OpenInput
    \/ LoadTable
    \/ ExtraLine
    \/ DecodeRoot
    \/ DecodeArray
    \/ DecodeObject
    \/ CreateOutput
    \/ WriteOutput

Spec == Init /\ [][Next]_vars

\* The decode of chunk 0, once called, runs on: one thread, no suspension
\* point and nothing it waits for.  (The steps before it wait for the reader.)
Decode == DecodeRoot \/ DecodeArray \/ DecodeObject

FairSpec == Spec /\ WF_vars(Decode)

\* ================================================================== claims
Aborted == {"failed", "panicked", "overflow"}

\* The innermost activation.
Top == stack[Len(stack)]

\* ------------------------------------------------------------------ C3
Abs(i) == IF i < 0 THEN -i ELSE i

\* What the contract of decode_index says of one logged call.
IndexContract(c) ==
    /\ IF ~c.index.some
       THEN c.out.st = "err" /\ c.out.e = "Invalid number format"
       ELSE IF c.index.i >= 0
       THEN IF c.index.i < c.len
            THEN c.out.st = "ok" /\ c.out.r = c.index.i
            ELSE c.out.st = "err" /\ c.out.e = "Index out of bounds"
       ELSE IF Abs(c.index.i) <= c.len
            THEN c.out.st = "ok" /\ c.out.r = c.len - Abs(c.index.i)
            ELSE c.out.st = "err" /\ c.out.e = "Index out of bounds"
    /\ c.out.st = "ok" => 0 <= c.out.r /\ c.out.r < c.len

\* C3: every decode_index call on a table of length L returns i for
\* 0 <= i < L, L - |i| for a negative i with |i| <= L, fails with
\* "Index out of bounds" for any other integer and with "Invalid number
\* format" for an absent or non-integer candidate; a successful result lies
\* in [0, L).
C3_DecodeIndexContract == \A k \in DOMAIN calls : IndexContract(calls[k])

\* ------------------------------------------------------------------ C10
\* C10: every read encoded_list[idx] uses an index inside [0, length): the
\* root read of chunk 0, the placeholder read of a patch line, and every
\* element, key and value dereference of the decode.
C10_ReadsInRange == \A k \in DOMAIN reads : 0 <= reads[k].idx /\ reads[k].idx < reads[k].len

\* ------------------------------------------------------------------ C1
IsP(val) == val = [t |-> "str", v |-> <<"P">>]

\* The innermost activation is decode_array about to look at a "P" at a
\* position after the first, in an array whose first element is not "P".
LaterP ==
    /\ pc = "decode"
    /\ Top.kind = "arr"
    /\ Top.i > 1
    /\ Top.i <= Len(Top.src)
    /\ IsP(Top.src[Top.i])
    /\ ~IsP(Top.src[1])

\* C1: a "P" at a position k > 0 of an array whose element 0 is not "P" is
\* appended to the result as the literal string "P", and the loop goes on
\* with the next element: no index is resolved, no chunk is read and the
\* array is not replaced.
C1_PushMarkerOnlyAtPositionZero ==
    [][LaterP =>
         /\ pc' = "decode"
         /\ Len(stack') = Len(stack)
         /\ stack'[Len(stack)].res = Append(Top.res, [t |-> "str", v |-> <<"P">>])
         /\ stack'[Len(stack)].i = Top.i + 1
         /\ reads' = <<>>
         /\ calls' = <<>>]_vars

\* ------------------------------------------------------------------ C2
\* An extra line is being processed: the step of the loop that reads it.
ReadsText == pc = "extra" /\ line'.kind = "text"

\* The label of the line read is "P-" and one digit naming m.
NegativeLabel(ln) ==
    /\ Len(ln.label) = 3
    /\ ln.label[1] = "P"
    /\ ln.label[2] = "-"
    /\ ln.label[3] \in AsciiDigits

\* The label of the line read is "P" and ASCII digits.
DigitsLabel(ln) ==
    /\ Len(ln.label) >= 2
    /\ ln.label[1] = "P"
    /\ \A k \in 2..Len(ln.label) : ln.label[k] \in AsciiDigits

RECURSIVE Decimal(_, _)
Decimal(acc, ds) == IF ds = <<>> THEN acc ELSE Decimal(acc * 10 + DigitVal[Head(ds)], Tail(ds))
LabelValue(ln) == Decimal(0, SubSeq(ln.label, 2, Len(ln.label)))

IsPair(val) == val.t = "arr" /\ Len(val.v) = 2

PatchApplied == pc = "extra" /\ pc' = "extra"

\* C4: a patch applied to a table of length L through a label resolving to
\* p leaves chunk p's second element the number L and its first element as
\* it was, every other chunk below L unchanged, and the payload's elements
\* at L, L+1, ... in order; and at any time each patched placeholder's second
\* element is the table length at the last patch naming it.  The table
\* [["P",1],0] patched by P0:[42] becomes [["P",2],0,42] and decodes to 42.
C4_PatchEffect ==
    /\ [][PatchApplied =>
            LET L == Len(encoded_list)
                p == LabelValue(line')
            IN /\ p < L
               /\ IsPair(encoded_list[p + 1])
               /\ encoded_list'[p + 1] =
                    [t |-> "arr", v |-> <<encoded_list[p + 1].v[1], [t |-> "num", v |-> L]>>]
               /\ \A q \in 0..(L - 1) : q # p => encoded_list'[q + 1] = encoded_list[q + 1]
               /\ Len(encoded_list') = L + Len(line'.v)
               /\ \A k \in 1..Len(line'.v) : encoded_list'[L + k] = line'.v[k]]_vars
    /\ [](pc \notin Aborted =>
            \A p \in DOMAIN patched :
                encoded_list[p + 1].v[2] = [t |-> "num", v |-> patched[p]])
    /\ []((/\ pc = "decoded"
           /\ DOMAIN patched = {0}
           /\ Len(encoded_list) = 3
           /\ encoded_list[1].v[1] = [t |-> "str", v |-> <<"P">>]
           /\ encoded_list[3] = [t |-> "num", v |-> 42])
          => /\ encoded_list = << [t |-> "arr", v |-> <<[t |-> "str", v |-> <<"P">>],
                                                        [t |-> "num", v |-> 2]>>],
                                  encoded_list[2], [t |-> "num", v |-> 42] >>
             /\ decoded_data = [t |-> "num", v |-> 42])

\* The table [["P",1],0] was patched by P0:[42] and decoded to 42.
C4_Witness ==
    /\ pc = "decoded"
    /\ patched = (0 :> 2)
    /\ encoded_list = << [t |-> "arr", v |-> <<[t |-> "str", v |-> <<"P">>], [t |-> "num", v |-> 2]>>],
                         [t |-> "num", v |-> 0], [t |-> "num", v |-> 42] >>
    /\ decoded_data = [t |-> "num", v |-> 42]

\* ------------------------------------------------------------------ C5
IsNumber(val) == val.t \in {"num", "float"}

\* No JSON number inside any array or object of val.
RECURSIVE NoReferences(_)
NoReferences(val) ==
    IF val.t = "arr"
    THEN \A k \in DOMAIN val.v : ~IsNumber(val.v[k]) /\ NoReferences(val.v[k])
    ELSE IF val.t = "obj"
    THEN \A k \in DOMAIN val.v : ~IsNumber(val.v[k]) /\ NoReferences(val.v[k])
    ELSE TRUE

\* No object with a key and no array with an element "P" in val.
RECURSIVE NoKeysNoP(_)
NoKeysNoP(val) ==
    IF val.t = "arr"
    THEN \A k \in DOMAIN val.v : ~IsP(val.v[k]) /\ NoKeysNoP(val.v[k])
    ELSE IF val.t = "obj"
    THEN DOMAIN val.v = {}
    ELSE TRUE

\* The decode of chunk 0 is under way on a table no patch line extended.
DecodingUnpatched == pc \in {"root", "decode"} /\ DOMAIN patched = {} /\ encoded_list # <<>>

\* C5 as stated: with no patch lines and no number inside any array or
\* object of chunk 0, the decode succeeds and yields chunk 0.
C5_NoReferencesIdentity ==
    [][(DecodingUnpatched /\ NoReferences(encoded_list[1])) =>
         /\ pc' \in {"decode", "decoded"}
         /\ pc' = "decoded" => decoded_data' = encoded_list[1]]_vars

\* C5 amended: with no patch lines and no number inside any array or object
\* of chunk 0, the decode succeeds and yields chunk 0 exactly when chunk 0
\* holds no object that has a key and no array that has the string "P" as an
\* element; when it holds one, the decode never yields a value (a pair needs
\* a number as its value, an array holding "P" needs one as its second element).
C5_PlainIdentity ==
    /\ [][(DecodingUnpatched /\ NoReferences(encoded_list[1]) /\ NoKeysNoP(encoded_list[1])) =>
            /\ pc' \in {"decode", "decoded"}
            /\ pc' = "decoded" => decoded_data' = encoded_list[1]]_vars
    /\ [][(DecodingUnpatched /\ NoReferences(encoded_list[1]) /\ ~NoKeysNoP(encoded_list[1])) =>
            pc' \in {"decode", "failed"}]_vars

\* An array holding a string and a nested array was decoded to itself.
C5_Witness ==
    /\ pc = "decoded"
    /\ DOMAIN patched = {}
    /\ encoded_list[1] = [t |-> "arr", v |-> << [t |-> "str", v |-> <<"x">>],
                                                 [t |-> "arr", v |-> <<[t |-> "str", v |-> <<"x">>]>>] >>]
    /\ decoded_data = encoded_list[1]

\* ------------------------------------------------------------------ C6
\* C6: while the table is loaded, patched and decoded, and after any failure
\* of these, nothing was emitted: the sink is neither created nor written.
\* The sink is touched only after new returned the decoded data, and holds
\* the whole output only when the run is done.
C6_AllOrNothing ==
    /\ pc \in {"main", "new", "extra", "root", "decode", "decoded", "panicked", "overflow"}
         => output = "none"
    /\ (pc = "failed" /\ err # "Failed to write JSON data") => output = "none"
    /\ output = "written" <=> pc = "done"

\* The first line was not a JSON array: the run failed with no output.
C6_Witness ==
    /\ pc = "failed"
    /\ err = "Invalid JSON array"
    /\ line.kind = "first"
    /\ ~line.json
    /\ output = "none"

\* ------------------------------------------------------------------ C7
\* The index a reference i names in a table of length L, -1 when none.
Resolve(i, L) ==
    IF 0 <= i /\ i < L THEN i
    ELSE IF i < 0 /\ -i <= L THEN L + i
    ELSE -1

IsScalar(val) == val.t \notin {"arr", "obj"}

\* decode_object is about to take its next key/value pair.
ObjectTurn == pc = "decode" /\ Top.kind = "obj" /\ Top.i <= Cardinality(DOMAIN Top.src)
TurnKey == SortedKeys(DOMAIN Top.src)[Top.i]

\* The key is an underscore and digits, and the digits are an integer that
\* names a chunk.
IsKeyIndex(key) == Len(key) >= 2 /\ key[1] = "_" /\ \A k \in 2..Len(key) : key[k] \in UnicodeDigits
KeyNamesChunk(key) ==
    /\ \A k \in 2..Len(key) : key[k] \in AsciiDigits
    /\ Decimal(0, SubSeq(key, 2, Len(key))) < Len(encoded_list)
KeyChunk(key) == encoded_list[Decimal(0, SubSeq(key, 2, Len(key))) + 1]

\* What C7 says of the pair the turn takes.
PairContract(key, value) ==
    IF ~IsKeyIndex(key) THEN pc' = "failed" /\ err' = "Invalid K-index format"
    ELSE IF ~KeyNamesChunk(key)
    THEN pc' = "failed" /\ err' \in {"Invalid number format", "Index out of bounds"}
    ELSE IF KeyChunk(key).t # "str" THEN pc' = "failed" /\ err' = "Invalid string format"
    ELSE IF value.t # "num" THEN pc' = "failed" /\ err' = "Invalid number format"
    ELSE IF Resolve(value.v, Len(encoded_list)) = -1 THEN pc' \in {"failed", "panicked"}
    ELSE
      LET j == Resolve(value.v, Len(encoded_list))
          n == Len(stack)
      IN IF IsScalar(encoded_list[j + 1])
         THEN /\ pc' = "decode"
              /\ Len(stack') = n
              /\ stack'[n].i = Top.i + 1
              /\ DOMAIN stack'[n].res = DOMAIN Top.res \cup {KeyChunk(key).v}
              /\ stack'[n].res[KeyChunk(key).v] = encoded_list[j + 1]
              /\ \A k \in DOMAIN Top.res \ {KeyChunk(key).v} : stack'[n].res[k] = Top.res[k]
         ELSE \/ pc' = "overflow"
              \/ /\ pc' = "decode"
                 /\ Len(stack') = n + 1
                 /\ stack'[n].wait = "ins"
                 /\ stack'[n].key = KeyChunk(key).v
                 /\ stack'[n + 1].src = encoded_list[j + 1].v
                 /\ stack'[n + 1].chunk = j

\* A call returned to a decode_object that waits to insert its value.
ReturnsToInsert ==
    /\ pc = "decode"
    /\ pc' = "decode"
    /\ Len(stack') < Len(stack)
    /\ stack[Len(stack')].wait = "ins"

\* C7: decode_object takes each pair as the contract says (the key an
\* underscore and digits or "Invalid K-index format"; the digits an index
\* of a string chunk, the output key, or "Invalid string format"; the value
\* an integer index, else "Invalid number format"; the chunk there, decoded,
\* the output value), returns the pairs it built, and decodes the worked
\* examples to {"x": 5} and {"name": "Alice"}.
C7_ObjectContract ==
    /\ [][ObjectTurn => PairContract(TurnKey, Top.src[TurnKey])]_vars
    /\ [][ReturnsToInsert =>
            LET n == Len(stack')
            IN /\ stack'[n].i = stack[n].i + 1
               /\ DOMAIN stack'[n].res = DOMAIN stack[n].res \cup {stack[n].key}
               /\ \A k \in DOMAIN stack[n].res \ {stack[n].key} :
                      stack'[n].res[k] = stack[n].res[k]]_vars
    /\ [][(/\ pc = "decode"
           /\ Len(stack) = 1
           /\ Top.kind = "obj"
           /\ Top.i > Cardinality(DOMAIN Top.src))
          => pc' = "decoded" /\ decoded_data' = [t |-> "obj", v |-> Top.res]]_vars
    /\ []((pc = "decoded" /\ encoded_list = <<Obj(<<"_", "1">> :> Num(2)), Str(<<"x">>), Num(5)>>)
          => decoded_data = [t |-> "obj", v |-> (<<"x">> :> [t |-> "num", v |-> 5])])
    /\ []((pc = "decoded" /\ Len(encoded_list) = 4
           /\ encoded_list[1] = Obj(<<"_", "2">> :> Num(3))
           /\ encoded_list[3] = Str(<<"n", "a", "m", "e">>)
           /\ encoded_list[4] = Str(<<"A", "l", "i", "c", "e">>))
          => decoded_data = [t |-> "obj", v |-> (<<"n", "a", "m", "e">> :>
                                [t |-> "str", v |-> <<"A", "l", "i", "c", "e">>])])

\* The table [{"_1":2},"x",5] was decoded to {"x": 5}.
C7_Witness ==
    /\ pc = "decoded"
    /\ encoded_list = <<Obj(<<"_", "1">> :> Num(2)), Str(<<"x">>), Num(5)>>
    /\ decoded_data = [t |-> "obj", v |-> (<<"x">> :> [t |-> "num", v |-> 5])]

\* ------------------------------------------------------------------ C8
DecodePhase == {"root", "decode", "decoded", "serialize", "done"}

\* C8: the table changes only in the steps that load it and apply a patch
\* line; the decode of chunk 0 starts only when the reader holds no further
\* line before its blank line or end, and from then on the table stays as
\* it is, so every index of the decode is resolved against its final length.
C8_PhaseOrder ==
    /\ [][(pc \in DecodePhase /\ pc' \notin Aborted) => encoded_list' = encoded_list]_vars
    /\ [](pc \in DecodePhase => input = 0 /\ line.kind = "blank")
    /\ [][(pc \in {"root", "decode"}) =>
            (\A k \in DOMAIN calls' : calls'[k].len = Len(encoded_list))]_vars

\* After a patch, the decode resolved the reference -1 against the grown table.
C8_Witness ==
    /\ pc \in {"decode", "decoded"}
    /\ DOMAIN patched # {}
    /\ Len(encoded_list) = 3
    /\ calls = <<[index |-> [some |-> TRUE, i |-> -1], len |-> 3, out |-> [st |-> "ok", r |-> 2, e |-> ""]]>>

\* ------------------------------------------------------------------ C9
\* The chunks a value dereferences in a table of length L, reading every
\* number of an array, the second element of an array that holds "P", and
\* every number an object key maps to.
RECURSIVE References(_, _)
References(val, L) ==
    IF val.t = "arr"
    THEN UNION { IF val.v[k].t = "num" THEN {Resolve(val.v[k].v, L)}
                 ELSE IF IsP(val.v[k])
                 THEN IF Len(val.v) >= 2 /\ val.v[2].t = "num"
                      THEN {Resolve(val.v[2].v, L)} ELSE {}
                 ELSE References(val.v[k], L)
                 : k \in DOMAIN val.v } \ {-1}
    ELSE IF val.t = "obj"
    THEN { Resolve(val.v[k].v, L) : k \in {q \in DOMAIN val.v : val.v[q].t = "num"} } \ {-1}
    ELSE {}

\* The chunks reached from the chunks of S in one or more dereferences.
RECURSIVE ReachedFrom(_, _, _)
ReachedFrom(S, seen, list) ==
    LET next == UNION {References(list[c + 1], Len(list)) : c \in S}
    IN IF next \subseteq seen THEN seen ELSE ReachedFrom(next \ seen, seen \cup next, list)

\* No chunk reachable from chunk 0, chunk 0 included, reaches itself.
NoCycle(list) ==
    \A c \in {0} \cup ReachedFrom({0}, {}, list) : c \notin ReachedFrom({c}, {}, list)

\* A chunk is being decoded inside its own decode.
Reentered ==
    \E a, b \in DOMAIN stack : a < b /\ stack[a].chunk = stack[b].chunk /\ stack[a].chunk >= 0

SelfReferring == { [t |-> "arr", v |-> <<[t |-> "num", v |-> 0]>>],
                   [t |-> "arr", v |-> <<[t |-> "str", v |-> <<"P">>], [t |-> "num", v |-> 0]>>] }

\* C9: a decode of chunk 0 whose reachable references form no cycle ends
\* with a value, an error or a panic, and never exhausts the stack; a decode
\* that re-enters a chunk it is decoding goes on recursing and never yields a
\* value or an error, as with chunk 0 = [0] or ["P",0].
C9_Termination ==
    /\ ((pc = "root" /\ encoded_list # <<>> /\ NoCycle(encoded_list))
          ~> (pc \in {"decoded", "failed", "panicked"}))
    /\ [][(pc' = "overflow") => ~NoCycle(encoded_list)]_vars
    /\ [][Reentered => (pc' = "overflow" \/ (pc' = "decode" /\ Reentered'))]_vars
    /\ [][((pc \in {"root", "decode"}) /\ encoded_list # <<>> /\ encoded_list[1] \in SelfReferring)
            => pc' \in {"decode", "overflow"}]_vars

\* The decode of the table [[0]] is inside its second activation for chunk 0.
C9_Witness ==
    /\ pc = "decode"
    /\ encoded_list = <<[t |-> "arr", v |-> <<[t |-> "num", v |-> 0]>>]>>
    /\ Reentered

====
